---- MODULE Spec2Model ----
(***************************************************************************)
(* A model of the pipeline orchestrator of llm-orchestrator                *)
(* (src/orchestrator.py): run_pipeline, run_docker_task and the workspace  *)
(* directory they share with the task workers.                             *)
(*                                                                         *)
(* A file's content is a record [tag, len]: tag "ok" is a byte string that *)
(* decodes as UTF-8, tag "bad" one that does not, tag "nofile" stands for  *)
(* a path that does not exist; len is the number of characters.  A         *)
(* diagnostic string is a record of the template that produced it (kind,   *)
(* detail) and of the values interpolated into it (step, captured).        *)
(***************************************************************************)
EXTENDS Integers, Sequences, FiniteSets

\* ---------------------------------------------------------------- bounds
\* longest raw plan the planner returns in the model
MaxPlanLen == 3

\* ------------------------------------------------------ program constants
\* f_err.read(500) / f_prev.read(500)
ReadLimit == 500

\* keys of SERVICE_INFO
ServiceNames ==
    {"summarizer-service", "translator-service",
     "anonymizer-service", "med-term-translator-service"}

SERVICE_INFO ==
    [s \in ServiceNames |->
        [image |-> CASE s = "summarizer-service" -> "summarizer-app"
                     [] s = "translator-service" -> "translator-app"
                     [] s = "anonymizer-service" -> "anonymizer-app"
                     [] OTHER -> "med-term-translator-app",
         needs_api_key |-> TRUE]]

\* the identifiers the planner draws its plans from: two registered ones and
\* one that is not a key of SERVICE_INFO
PlanIds == {"summarizer-service", "translator-service", "pdf-reader-service"}

\* the pipeline runs of the model; a run that is "idle" was never started
Runs == {"run1", "run2"}

\* names tempfile.mkdtemp can hand out
DirNames == {"llm_orch_run_a", "llm_orch_run_b"}

\* ------------------------------------------------------------- file values
NoFile == [tag |-> "nofile", len |-> 0]

Lens == {0, 4, ReadLimit, ReadLimit + 1}

\* what a file can hold: text that decodes, or bytes that do not
Contents ==
    {c \in [tag : {"ok", "bad"}, len : Lens] : c.tag = "bad" => c.len = 4}

FileStates == Contents \cup {NoFile}

\* a directory: whether it exists, and its input.txt, output.txt, input.pdf
NoDir == [exists |-> FALSE, input |-> NoFile, output |-> NoFile, pdf |-> FALSE]

EmptyDir == [exists |-> TRUE, input |-> NoFile, output |-> NoFile, pdf |-> FALSE]

Exists(f) == f # NoFile

Min(a, b) == IF a <= b THEN a ELSE b

\* open(path, 'r', encoding='utf-8') and f.read(): decoding fails on "bad"
Decodable(c) == c.tag = "ok"

\* f.read(): the whole text
ReadAll(c) == c

\* f.read(n): at most the first n characters
ReadUpTo(c, n) == [c EXCEPT !.len = Min(c.len, n)]

\* --------------------------------------------------------------- run values
None == "None"

NoneText == [tag |-> None, len |-> 0]

\* a diagnostic string
Diag(kind, step, detail, captured) ==
    [kind |-> kind, step |-> step, detail |-> detail, captured |-> captured]

NoneDiag == Diag(None, None, None, NoneText)

\* the pair run_pipeline returns
Pair(artifact, error) == [artifact |-> artifact, error |-> error]

NoResult == Pair(NoneText, NoneDiag)

\* what get_llm_plan returns: None, or a list of strings
NonePlan == [none |-> TRUE, items |-> <<>>]

ListPlan(s) == [none |-> FALSE, items |-> s]

SeqsUpTo(S, n) == UNION {[1..k -> S] : k \in 0..n}

PlannerReturns == {NonePlan} \cup {ListPlan(s) : s \in SeqsUpTo(PlanIds, MaxPlanLen)}

\* what the planning model answers: the call raises (planner unavailable), the
\* text is not JSON, the JSON is not a list of strings, or it is such a list
NoResponse == [kind |-> None, items |-> <<>>]

LlmResponses ==
    {[kind |-> k, items |-> <<>>] : k \in {"raises", "not_json", "not_list_of_strings"}}
        \cup {[kind |-> "list", items |-> s] : s \in SeqsUpTo(PlanIds, MaxPlanLen)}

\* lines 57-91, past the key check of line 59 (run_pipeline has made it)
get_llm_plan(response) ==
    IF response.kind = "list" THEN ListPlan(response.items) ELSE NonePlan

\* Python truth value of a plan: None and [] are both false
Truthy(p) == ~p.none /\ Len(p.items) > 0

\* a validation that lets every identifier of the plan through
FilterNothing(p) == p

\* [step for step in plan if step in SERVICE_INFO]
RECURSIVE FilterKnown(_)
FilterKnown(s) ==
    IF s = <<>> THEN <<>>
    ELSE IF Head(s) \in DOMAIN SERVICE_INFO
         THEN <<Head(s)>> \o FilterKnown(Tail(s))
         ELSE FilterKnown(Tail(s))

Range(s) == {s[k] : k \in 1..Len(s)}

\* text the caller may pass as initial_input_content (None, "", some text)
InitialInputs == {NoneText, [tag |-> "ok", len |-> 0], [tag |-> "ok", len |-> 4]}

\* ------------------------------------------------------------ request text
\* A request is a sequence of tokens separated by single spaces. A token is
\* its leading run of word characters in lower case (word, "" when it starts
\* with none), whether that run has upper-case letters (cased), and whether
\* other characters follow it (tail).
Token(word, cased, tail) == [word |-> word, cased |-> cased, tail |-> tail]

Tokens ==
    { Token("translate", FALSE, FALSE),     \* translate
      Token("translate", TRUE, FALSE),      \* Translate
      Token("to", FALSE, FALSE),            \* to
      Token("german", FALSE, FALSE),        \* german
      Token("german", TRUE, FALSE),         \* German
      Token("german", FALSE, TRUE),         \* german.
      Token("klingon", FALSE, FALSE),       \* klingon
      Token("", FALSE, TRUE) }              \* !

\* a piece of text cut out of a token: its letters and whether some are upper
\* case
Text(word, cased) == [word |-> word, cased |-> cased]

\* line 98 without .lower(): the name as it was typed
KeepCase(text) == text

\* line 98: str.lower()
Lower(text) == [text EXCEPT !.cased = FALSE]

\* lines 99-100: lang_map
lang_map ==
    [name \in {"german", "french", "spanish", "japanese", "english"} |->
        CASE name = "german" -> "de"
          [] name = "french" -> "fr"
          [] name = "spanish" -> "es"
          [] name = "japanese" -> "ja"
          [] name = "english" -> "en"]

\* line 101: lang_map.get(lang_name, 'en'); the keys are lower-case names
Get(map, key, default) ==
    IF ~key.cased /\ key.word \in DOMAIN map THEN map[key.word] ELSE default

\* line 95: the token is <literal> written in either case (re.IGNORECASE),
\* with nothing after it
IsLiteral(token, literal) == token.word = literal /\ ~token.tail

\* line 95: r'translate to (\w+)' matches from token k on
MatchAt(request, k) ==
    /\ k + 2 <= Len(request)
    /\ IsLiteral(request[k], "translate")
    /\ IsLiteral(request[k + 1], "to")
    /\ request[k + 2].word # ""

\* line 95: re.search, the leftmost match from token k on (0 when none)
RECURSIVE Search(_, _)
Search(request, k) ==
    IF k > Len(request) THEN 0
    ELSE IF MatchAt(request, k) THEN k
    ELSE Search(request, k + 1)

\* lines 94-101
extract_language(request) ==
    LET match == Search(request, 1) IN
    IF match = 0
    THEN "en"
    ELSE LET group1 == Text(request[match + 2].word, request[match + 2].cased)
             lang_name == Lower(group1)
         IN  Get(lang_map, lang_name, "en")

\* requests the caller passes to run_pipeline (a run that was never started
\* has the empty request): "summarize german", "Translate to German"
SampleRequests ==
    { <<Token("summarize", FALSE, FALSE), Token("german", FALSE, FALSE)>>,
      <<Token("translate", TRUE, FALSE), Token("to", FALSE, FALSE),
        Token("german", TRUE, FALSE)>> }

\* a container name: the image and the 8 hex digits of a uuid4
NoName == [image |-> None, suffix |-> None]

\* no worker is being looked at
NoWorker == [pc |-> "idle"]

VARIABLES
    GOOGLE_API_KEY,         \* module global: TRUE when configured, FALSE when None
    envKey,                 \* os.getenv("GOOGLE_API_KEY") is set
    fs,                     \* the filesystem: DirNames -> directory
    pc,                     \* each run's position in run_pipeline
    initial_input_content,  \* argument of run_pipeline
    plan,                   \* get_llm_plan's return value
    valid_steps,            \* the filtered plan
    ignored,                \* identifiers named by the warning of line 201
    temp_dir,               \* the workspace directory of the run (None before mkdtemp)
    i,                      \* loop index of line 234 (0-based, as in the code)
    success,                \* run_docker_task's last return value
    result,                 \* the pair being returned
    invoked,                \* history: service names run_docker_task was called with
    reports,                \* history: what each call returned
    written,                \* history: output.txt as the last call left it
    rmtree,                 \* history: "not_called", "removed" or "failed"
    user_request,           \* argument of run_pipeline: a sequence of words
    llm_response,           \* what the planner's model answered (its kind)
    lang_code,              \* extract_language's return value (None before)
    step_env_vars,          \* TARGET_LANG of step_env_vars (None when not set)
    container_name,         \* name of the container of the call in progress
    containers,             \* docker: names of the containers that exist
    launched,               \* history: how many times docker run was executed
    cancel,                 \* the step during which the caller asked to cancel (0: never)
    worker                  \* a task worker's own execution

reqVars == <<user_request, llm_response, lang_code, step_env_vars>>

dockerVars == <<container_name, containers, launched>>

vars ==
    <<GOOGLE_API_KEY, envKey, fs, pc, initial_input_content, plan, valid_steps,
      ignored, temp_dir, i, success, result, invoked, reports, written, rmtree,
      reqVars, dockerVars, cancel, worker>>

\* --------------------------------------------------------------------- Init
\* lines 15-29: the key is configured only when the environment holds it, and
\* genai.configure may still fail
ConfigStates ==
    {c \in [env : BOOLEAN, key : BOOLEAN] : c.key => c.env}

InitRun(active) ==
    /\ fs = [d \in DirNames |-> NoDir]
    /\ pc = [r \in Runs |-> IF r \in active THEN "start" ELSE "idle"]
    /\ initial_input_content \in [Runs -> InitialInputs]
    /\ \A r \in Runs : r \notin active => initial_input_content[r] = NoneText
    /\ plan = [r \in Runs |-> NonePlan]
    /\ valid_steps = [r \in Runs |-> <<>>]
    /\ ignored = [r \in Runs |-> {}]
    /\ temp_dir = [r \in Runs |-> None]
    /\ i = [r \in Runs |-> 0]
    /\ success = [r \in Runs |-> FALSE]
    /\ result = [r \in Runs |-> NoResult]
    /\ invoked = [r \in Runs |-> <<>>]
    /\ reports = [r \in Runs |-> <<>>]
    /\ written = [r \in Runs |-> NoFile]
    /\ rmtree = [r \in Runs |-> "not_called"]
    /\ user_request \in [Runs -> SampleRequests \cup {<<>>}]
    /\ \A r \in Runs : user_request[r] = <<>> <=> r \notin active
    /\ llm_response = [r \in Runs |-> NoResponse]
    /\ lang_code = [r \in Runs |-> None]
    /\ step_env_vars = [r \in Runs |-> None]
    /\ container_name = [r \in Runs |-> NoName]
    /\ containers = {}
    /\ launched = [r \in Runs |-> 0]
    /\ cancel = [r \in Runs |-> 0]
    /\ worker = NoWorker

Init ==
    /\ \E c \in ConfigStates : envKey = c.env /\ GOOGLE_API_KEY = c.key
    /\ InitRun({"run1"})

\* ------------------------------------------------------------------ actions
\* return <pair> before the workspace exists (lines 188, 192, 197)
ReturnEarly(r, pair) ==
    /\ result' = [result EXCEPT ![r] = pair]
    /\ pc' = [pc EXCEPT ![r] = "done"]

\* lines 186-188
CheckKey(r) ==
    /\ pc[r] = "start"
    /\ IF ~GOOGLE_API_KEY
       THEN ReturnEarly(r, Pair(NoneText, Diag("no_key", None, None, NoneText)))
       ELSE /\ pc' = [pc EXCEPT ![r] = "get_plan"]
            /\ UNCHANGED result
    /\ UNCHANGED <<reqVars, dockerVars, cancel, worker>>
    /\ UNCHANGED <<GOOGLE_API_KEY, envKey, fs, initial_input_content, plan,
                   valid_steps, ignored, temp_dir, i, success, invoked, reports,
                   written, rmtree>>

\* a check that rejects the empty list only
PlanRejectedEmptyOnly(p) == ~p.none /\ p.items = <<>>

\* line 191: "if not plan"
PlanRejected(p) == ~Truthy(p)

\* lines 190-192, with get_llm_plan (lines 57-91) as the planner's answer
GetPlan(r) ==
    /\ pc[r] = "get_plan"
    /\ \E response \in LlmResponses :
          LET p == get_llm_plan(response) IN
          /\ llm_response' = [llm_response EXCEPT ![r] = response]
          /\ plan' = [plan EXCEPT ![r] = p]
          /\ IF PlanRejected(p)
             THEN ReturnEarly(r, Pair(NoneText, Diag("no_plan", None, None, NoneText)))
             ELSE /\ pc' = [pc EXCEPT ![r] = "validate"]
                  /\ UNCHANGED result
    /\ UNCHANGED <<user_request, lang_code, step_env_vars, dockerVars, cancel, worker>>
    /\ UNCHANGED <<GOOGLE_API_KEY, envKey, fs, initial_input_content, valid_steps,
                   ignored, temp_dir, i, success, invoked, reports, written, rmtree>>

\* lines 198-199: the identifiers the warning names
Ignored(p, vs) ==
    IF Len(vs) # Len(p) THEN Range(p) \ Range(vs) ELSE {}

\* lines 194-203
ValidatePlan(r) ==
    /\ pc[r] = "validate"
    /\ LET vs == FilterKnown(plan[r].items) IN
          /\ valid_steps' = [valid_steps EXCEPT ![r] = vs]
          /\ IF vs = <<>>
             THEN /\ ReturnEarly(r, Pair(NoneText,
                                         Diag("no_services", None, None, NoneText)))
                  /\ UNCHANGED ignored
             ELSE /\ ignored' = [ignored EXCEPT ![r] = Ignored(plan[r].items, vs)]
                  /\ pc' = [pc EXCEPT ![r] = "mkdtemp"]
                  /\ UNCHANGED result
    /\ UNCHANGED <<reqVars, dockerVars, cancel, worker>>
    /\ UNCHANGED <<GOOGLE_API_KEY, envKey, fs, initial_input_content, plan,
                   temp_dir, i, success, invoked, reports, written, rmtree>>

\* lines 191-197: the diagnostic run_pipeline returns before it makes a
\* workspace when the planner answers p (None when it goes on to execute)
EarlyReturnKind(p) ==
    IF PlanRejected(p) THEN "no_plan"
    ELSE IF FilterKnown(p.items) = <<>> THEN "no_services"
    ELSE None

\* lines 205-212: tempfile.mkdtemp makes a directory no one else has, or raises
\* OSError; the call stands before the try of line 214, so the exception leaves
\* run_pipeline
MkDtemp(r) ==
    /\ pc[r] = "mkdtemp"
    /\ \/ \E d \in DirNames :
             /\ ~fs[d].exists
             /\ fs' = [fs EXCEPT ![d] = EmptyDir]
             /\ temp_dir' = [temp_dir EXCEPT ![r] = d]
             /\ pc' = [pc EXCEPT ![r] = "staging"]
       \/ /\ pc' = [pc EXCEPT ![r] = "raised"]
          /\ UNCHANGED <<fs, temp_dir>>
    /\ UNCHANGED <<reqVars, dockerVars, cancel, worker>>
    /\ UNCHANGED <<GOOGLE_API_KEY, envKey, initial_input_content, plan, valid_steps,
                   ignored, i, success, result, invoked, reports, written, rmtree>>

\* line 212
is_first_step_pdf(r) == valid_steps[r][1] = "pdf-reader-service"

\* Except with the finally clause skipped: the pair is returned at once
ExceptNoFinally(r, step, detail) ==
    /\ result' = [result EXCEPT ![r] =
                     Pair(NoneText, Diag("pipeline_failed", step, detail, NoneText))]
    /\ pc' = [pc EXCEPT ![r] = "done"]

\* lines 286-289: an exception raised inside the try becomes a returned pair,
\* and the finally clause runs next
Except(r, step, detail) ==
    /\ result' = [result EXCEPT ![r] =
                     Pair(NoneText, Diag("pipeline_failed", step, detail, NoneText))]
    /\ pc' = [pc EXCEPT ![r] = "cleanup"]

\* a staging that writes the argument as it came, without the "" of line 232
StagedTextAsGiven(content) == content

\* lines 224-232: the text written to input.txt
StagedText(content) ==
    IF content # NoneText /\ content.len > 0
    THEN content
    ELSE [tag |-> "ok", len |-> 0]

\* lines 214-232
Stage(r) ==
    /\ pc[r] = "staging"
    /\ LET d == temp_dir[r] IN
       IF is_first_step_pdf(r)
       THEN \/ /\ fs' = [fs EXCEPT ![d].pdf = TRUE]
               /\ pc' = [pc EXCEPT ![r] = "chain"]
               /\ UNCHANGED result
            \/ /\ Except(r, None, "no_pdf")
               /\ UNCHANGED fs
       ELSE \/ /\ fs' = [fs EXCEPT ![d].input = StagedText(initial_input_content[r])]
               /\ pc' = [pc EXCEPT ![r] = "chain"]
               /\ UNCHANGED result
            \/ /\ Except(r, None, "io_error")
               /\ UNCHANGED fs
    /\ UNCHANGED <<reqVars, dockerVars, cancel, worker>>
    /\ UNCHANGED <<GOOGLE_API_KEY, envKey, initial_input_content, plan, valid_steps,
                   ignored, temp_dir, i, success, invoked, reports, written, rmtree>>

\* a loop that takes the first step of the plan at every iteration
service_nameFirst(r) == valid_steps[r][1]

\* the step of the current loop iteration
service_name(r) == valid_steps[r][i[r] + 1]

\* Rename as a copy: output.txt is left in place
RenameAsCopy(dir) == [dir EXCEPT !.input = dir.output]

\* a rename that moves nothing: output.txt stays where it is
RenameNothing(dir) == dir

\* line 240: os.rename(current_output_file, current_input_file)
Rename(dir) == [dir EXCEPT !.input = dir.output, !.output = NoFile]

\* MissingInputStep naming the step before the current one
MissingInputStepPrev(r) == valid_steps[r][i[r]]

\* line 245: the step the FileNotFoundError names
MissingInputStep(r) == service_name(r)

\* lines 234-245: the top of a loop iteration
Chain(r) ==
    /\ pc[r] = "chain"
    /\ LET d == temp_dir[r] IN
       IF i[r] > 0 \/ ~is_first_step_pdf(r)
       THEN IF Exists(fs[d].output)
            THEN /\ fs' = [fs EXCEPT ![d] = Rename(fs[d])]
                 /\ pc' = [pc EXCEPT ![r] = "invoke"]
                 /\ UNCHANGED result
            ELSE IF i[r] > 0
                 THEN /\ Except(r, MissingInputStep(r), "input_missing")
                      /\ UNCHANGED fs
                 ELSE /\ pc' = [pc EXCEPT ![r] = "invoke"]
                      /\ UNCHANGED <<fs, result>>
       ELSE /\ pc' = [pc EXCEPT ![r] = "invoke"]
            /\ UNCHANGED <<fs, result>>
    /\ UNCHANGED <<reqVars, dockerVars, cancel, worker>>
    /\ UNCHANGED <<GOOGLE_API_KEY, envKey, initial_input_content, plan, valid_steps,
                   ignored, temp_dir, i, success, invoked, reports, written, rmtree>>

\* RefusesLaunch without the check of the key
RefusesLaunchUnknownOnly(name) == name \notin DOMAIN SERVICE_INFO

\* lines 106-137: run_docker_task gives up before launching anything
RefusesLaunch(name) ==
    \/ name \notin DOMAIN SERVICE_INFO
    \/ SERVICE_INFO[name].needs_api_key /\ ~envKey

\* uuid.uuid4().hex[:8]: the first 8 hex digits of a random uuid; two uuids
\* can share them
Suffixes == {"0a1b2c3d", "4e5f6a7b"}

\* line 113: f"{image_name}-{uuid.uuid4().hex[:8]}"
ContainerName(name, suffix) == [image |-> SERVICE_INFO[name].image, suffix |-> suffix]

\* run_docker_task returns False without a worker having run (lines 109, 137,
\* 165-181): output.txt is as it was
ReturnsFalse(r) ==
    /\ success' = [success EXCEPT ![r] = FALSE]
    /\ reports' = [reports EXCEPT ![r] = Append(@, FALSE)]
    /\ written' = [written EXCEPT ![r] = fs[temp_dir[r]].output]
    /\ container_name' = [container_name EXCEPT ![r] = NoName]
    /\ pc' = [pc EXCEPT ![r] = "check"]

\* a loop that sets TARGET_LANG for every step
NeedsTargetLangAlways(name) == TRUE

\* line 248: the step for which TARGET_LANG is set
NeedsTargetLang(name) == name = "translator-service"

\* lines 247-255 and run_docker_task up to the launch (lines 104-147)
InvokeTask(r) ==
    /\ pc[r] = "invoke"
    /\ invoked' = [invoked EXCEPT ![r] = Append(@, service_name(r))]
    /\ IF RefusesLaunch(service_name(r))
       THEN ReturnsFalse(r)
       ELSE /\ \E suffix \in Suffixes :
                  container_name' = [container_name EXCEPT ![r] =
                                        ContainerName(service_name(r), suffix)]
            /\ pc' = [pc EXCEPT ![r] = "launch"]
            /\ UNCHANGED <<success, reports, written>>
    /\ IF NeedsTargetLang(service_name(r))
       THEN /\ lang_code' = [lang_code EXCEPT ![r] = extract_language(user_request[r])]
            /\ step_env_vars' = [step_env_vars EXCEPT ![r] =
                                    extract_language(user_request[r])]
       ELSE /\ step_env_vars' = [step_env_vars EXCEPT ![r] = None]
            /\ UNCHANGED lang_code
    /\ UNCHANGED <<user_request, llm_response, containers, launched, cancel, worker>>
    /\ UNCHANGED <<GOOGLE_API_KEY, envKey, fs, initial_input_content, plan,
                   valid_steps, ignored, temp_dir, i, result, rmtree>>

\* lines 148-150: subprocess.run starts "docker run --rm --name <name> ...";
\* docker refuses a name that a container already has (a non-zero exit status,
\* lines 165-173)
Launch(r) ==
    /\ pc[r] = "launch"
    /\ launched' = [launched EXCEPT ![r] = @ + 1]
    /\ IF container_name[r] \in containers
       THEN /\ ReturnsFalse(r)
            /\ UNCHANGED containers
       ELSE /\ containers' = containers \cup {container_name[r]}
            /\ pc' = [pc EXCEPT ![r] = "running"]
            /\ UNCHANGED <<success, reports, written, container_name>>
    /\ UNCHANGED <<reqVars, cancel, worker>>
    /\ UNCHANGED <<GOOGLE_API_KEY, envKey, fs, initial_input_content, plan,
                   valid_steps, ignored, temp_dir, i, result, invoked, rmtree>>

\* lines 148-181: subprocess.run returns; exit status zero is success, every
\* other end (non-zero status, docker missing, any exception) is failure.  The
\* worker is a black box: it leaves output.txt absent or with any content.
\* The container is removed (--rm).
TaskExit(r) ==
    /\ pc[r] = "running"
    /\ \E ok \in BOOLEAN, out \in FileStates :
          /\ fs' = [fs EXCEPT ![temp_dir[r]].output = out]
          /\ written' = [written EXCEPT ![r] = out]
          /\ success' = [success EXCEPT ![r] = ok]
          /\ reports' = [reports EXCEPT ![r] = Append(@, ok)]
    /\ containers' = containers \ {container_name[r]}
    /\ container_name' = [container_name EXCEPT ![r] = NoName]
    /\ pc' = [pc EXCEPT ![r] = "check"]
    /\ UNCHANGED <<reqVars, launched, cancel, worker>>
    /\ UNCHANGED <<GOOGLE_API_KEY, envKey, initial_input_content, plan, valid_steps,
                   ignored, temp_dir, i, result, invoked, rmtree>>

\* line 149: subprocess.run is given no timeout; a worker that never exits
\* leaves run_docker_task, and the run, waiting for ever
TaskHangs(r) ==
    /\ pc[r] = "running"
    /\ pc' = [pc EXCEPT ![r] = "hung"]
    /\ UNCHANGED <<reqVars, dockerVars, cancel, worker>>
    /\ UNCHANGED <<GOOGLE_API_KEY, envKey, fs, initial_input_content, plan,
                   valid_steps, ignored, temp_dir, i, success, result, invoked,
                   reports, written, rmtree>>

\* FailedStep naming the first step of the plan
FailedStepFirst(r) == valid_steps[r][1]

\* line 258: the step error_detail names
FailedStep(r) == service_name(r)

\* an error_detail made with f_err.read(): the whole content, not cut
ErrorDetailWhole(r, output) ==
    IF Exists(output)
    THEN IF Decodable(output)
         THEN Diag("step_failed", FailedStep(r), "last_output", ReadAll(output))
         ELSE Diag("step_failed", FailedStep(r), "could_not_read", NoneText)
    ELSE Diag("step_failed", FailedStep(r), None, NoneText)

\* lines 258-265: error_detail
ErrorDetail(r, output) ==
    IF Exists(output)
    THEN IF Decodable(output)
         THEN Diag("step_failed", FailedStep(r), "last_output",
                   ReadUpTo(output, ReadLimit))
         ELSE Diag("step_failed", FailedStep(r), "could_not_read", NoneText)
    ELSE Diag("step_failed", FailedStep(r), None, NoneText)

\* StepsLeft ending the loop one step early
StepsLeftShort(r, n) == n + 1 < Len(valid_steps[r])

\* line 234: the loop goes on while steps are left
StepsLeft(r, n) == n < Len(valid_steps[r])

\* lines 257-267, and the loop's advance
CheckSuccess(r) ==
    /\ pc[r] = "check"
    /\ IF ~success[r]
       THEN /\ result' = [result EXCEPT ![r] =
                             Pair(NoneText, ErrorDetail(r, fs[temp_dir[r]].output))]
            /\ pc' = [pc EXCEPT ![r] = "cleanup"]
            /\ UNCHANGED i
       ELSE /\ i' = [i EXCEPT ![r] = @ + 1]
            /\ pc' = [pc EXCEPT ![r] =
                         IF StepsLeft(r, i[r] + 1) THEN "chain" ELSE "collect"]
            /\ UNCHANGED result
    /\ UNCHANGED <<reqVars, dockerVars, cancel, worker>>
    /\ UNCHANGED <<GOOGLE_API_KEY, envKey, fs, initial_input_content, plan,
                   valid_steps, ignored, temp_dir, success, invoked, reports,
                   written, rmtree>>

\* FinalResult cut at the read limit of the diagnostics
FinalResultCut(output) == ReadUpTo(output, ReadLimit)

\* FinalResult with an empty text returned as None
FinalResultOrNone(output) == IF output.len = 0 THEN NoneText ELSE ReadAll(output)

\* lines 270-271: final_result = f.read()
FinalResult(output) == ReadAll(output)

\* lines 275-284: err_msg
FinalMissing(r, input) ==
    IF Exists(input) /\ Len(valid_steps[r]) > 1 /\ Decodable(input)
    THEN Diag("final_missing", None, "input_content", ReadUpTo(input, ReadLimit))
    ELSE Diag("final_missing", None, None, NoneText)

\* lines 269-284
Collect(r) ==
    /\ pc[r] = "collect"
    /\ LET dir == fs[temp_dir[r]] IN
       IF Exists(dir.output)
       THEN IF Decodable(dir.output)
            THEN /\ result' = [result EXCEPT ![r] =
                                  Pair(FinalResult(dir.output), NoneDiag)]
                 /\ pc' = [pc EXCEPT ![r] = "cleanup"]
            ELSE Except(r, None, "decode_error")
       ELSE /\ result' = [result EXCEPT ![r] =
                             Pair(NoneText, FinalMissing(r, dir.input))]
            /\ pc' = [pc EXCEPT ![r] = "cleanup"]
    /\ UNCHANGED <<reqVars, dockerVars, cancel, worker>>
    /\ UNCHANGED <<GOOGLE_API_KEY, envKey, fs, initial_input_content, plan,
                   valid_steps, ignored, temp_dir, i, success, invoked, reports,
                   written, rmtree>>

\* a cleanup whose removal failure propagates: the pending pair is lost
CleanupRaises(r) ==
    /\ pc[r] = "cleanup"
    /\ IF temp_dir[r] # None /\ fs[temp_dir[r]].exists
       THEN \/ /\ fs' = [fs EXCEPT ![temp_dir[r]] = NoDir]
               /\ rmtree' = [rmtree EXCEPT ![r] = "removed"]
               /\ pc' = [pc EXCEPT ![r] = "done"]
               /\ UNCHANGED result
            \/ /\ rmtree' = [rmtree EXCEPT ![r] = "failed"]
               /\ pc' = [pc EXCEPT ![r] = "raised"]
               /\ result' = [result EXCEPT ![r] = NoResult]
               /\ UNCHANGED fs
       ELSE /\ pc' = [pc EXCEPT ![r] = "done"]
            /\ UNCHANGED <<fs, rmtree, result>>
    /\ UNCHANGED <<reqVars, dockerVars, cancel, worker>>
    /\ UNCHANGED <<GOOGLE_API_KEY, envKey, initial_input_content, plan, valid_steps,
                   ignored, temp_dir, i, success, invoked, reports, written>>

\* lines 291-295: shutil.rmtree(temp_dir, ignore_errors=True) removes the
\* directory, or fails and says nothing; then the pending pair is returned
Cleanup(r) ==
    /\ pc[r] = "cleanup"
    /\ IF temp_dir[r] # None /\ fs[temp_dir[r]].exists
       THEN \/ /\ fs' = [fs EXCEPT ![temp_dir[r]] = NoDir]
               /\ rmtree' = [rmtree EXCEPT ![r] = "removed"]
            \/ /\ rmtree' = [rmtree EXCEPT ![r] = "failed"]
               /\ UNCHANGED fs
       ELSE UNCHANGED <<fs, rmtree>>
    /\ pc' = [pc EXCEPT ![r] = "done"]
    /\ UNCHANGED <<reqVars, dockerVars, cancel, worker>>
    /\ UNCHANGED <<GOOGLE_API_KEY, envKey, initial_input_content, plan, valid_steps,
                   ignored, temp_dir, i, success, result, invoked, reports, written>>

\* one step of run r
RunStep(r) ==
    \/ CheckKey(r)
    \/ GetPlan(r)
    \/ ValidatePlan(r)
    \/ MkDtemp(r)
    \/ Stage(r)
    \/ Chain(r)
    \/ InvokeTask(r)
    \/ Launch(r)
    \/ TaskExit(r)
    \/ TaskHangs(r)
    \/ CheckSuccess(r)
    \/ Collect(r)
    \/ Cleanup(r)

Next ==
    \E r \in Runs : RunStep(r)

Spec == Init /\ [][Next]_vars

\* run_docker_task called on its own: any service name, any environment, and a
\* host_data_dir that exists and holds any files
InitTask ==
    /\ \E c \in ConfigStates : envKey = c.env /\ GOOGLE_API_KEY = c.key
    /\ \E name \in PlanIds, d \in DirNames, inp \in FileStates, out \in FileStates :
          /\ valid_steps = [r \in Runs |-> IF r = "run1" THEN <<name>> ELSE <<>>]
          /\ temp_dir = [r \in Runs |-> IF r = "run1" THEN d ELSE None]
          /\ fs = [e \in DirNames |->
                      IF e = d THEN [EmptyDir EXCEPT !.input = inp, !.output = out]
                      ELSE NoDir]
    /\ pc = [r \in Runs |-> IF r = "run1" THEN "invoke" ELSE "idle"]
    /\ initial_input_content = [r \in Runs |-> NoneText]
    /\ plan = [r \in Runs |-> NonePlan]
    /\ ignored = [r \in Runs |-> {}]
    /\ i = [r \in Runs |-> 0]
    /\ success = [r \in Runs |-> FALSE]
    /\ result = [r \in Runs |-> NoResult]
    /\ invoked = [r \in Runs |-> <<>>]
    /\ reports = [r \in Runs |-> <<>>]
    /\ written = [r \in Runs |-> NoFile]
    /\ rmtree = [r \in Runs |-> "not_called"]
    /\ user_request \in [Runs -> SampleRequests \cup {<<>>}]
    /\ \A r \in Runs : user_request[r] = <<>> <=> r # "run1"
    /\ llm_response = [r \in Runs |-> NoResponse]
    /\ lang_code = [r \in Runs |-> None]
    /\ step_env_vars = [r \in Runs |-> None]
    /\ container_name = [r \in Runs |-> NoName]
    /\ containers = {}
    /\ launched = [r \in Runs |-> 0]
    /\ cancel = [r \in Runs |-> 0]
    /\ worker = NoWorker

\* the steps of run_docker_task
NextTask ==
    \E r \in Runs :
        \/ InvokeTask(r)
        \/ Launch(r)
        \/ TaskExit(r)
        \/ TaskHangs(r)

SpecTask == InitTask /\ [][NextTask]_vars

\* ------------------------------------------------------------------- claims
\* run_pipeline has returned a pair to its caller
Returned(r) == pc[r] = "done"

\* the run made a workspace directory
HasWorkspace(r) == temp_dir[r] # None

IsPrefix(s, t) == Len(s) <= Len(t) /\ \A k \in 1..Len(s) : s[k] = t[k]

\* number of validated steps
NSteps(r) == Len(valid_steps[r])

\* the first call of run_docker_task that returned False (0 when none did)
FirstFailure(r) ==
    IF \E k \in DOMAIN reports[r] : ~reports[r][k]
    THEN CHOOSE k \in DOMAIN reports[r] :
            ~reports[r][k] /\ \A j \in 1..(k - 1) : reports[r][j]
    ELSE 0

AllSucceeded(r) ==
    /\ NSteps(r) >= 1
    /\ Len(reports[r]) = NSteps(r)
    /\ \A k \in DOMAIN reports[r] : reports[r][k]

\* C1 (as claimed): once a run that made a workspace directory has returned,
\* the directory no longer exists.
C1_WorkspaceAbsentAfterReturn ==
    \A r \in Runs :
        (Returned(r) /\ HasWorkspace(r)) => ~fs[temp_dir[r]].exists

\* C1 (amended): once a run that made a workspace directory has returned, it
\* has called shutil.rmtree on the directory, and the directory no longer
\* exists unless that removal failed.
C1_WorkspaceRemovalAttempted ==
    \A r \in Runs :
        (Returned(r) /\ HasWorkspace(r)) =>
            /\ rmtree[r] \in {"removed", "failed"}
            /\ rmtree[r] = "removed" => ~fs[temp_dir[r]].exists

C1_Witness ==
    \E r \in Runs :
        /\ Returned(r)
        /\ HasWorkspace(r)
        /\ result[r].error.kind = "pipeline_failed"
        /\ rmtree[r] = "removed"
        /\ ~fs[temp_dir[r]].exists

\* C2 (as claimed): a run with a validated plan of n >= 1 steps has, when it
\* returns, called the executor exactly n times, once per step in plan order.
C2_ExactlyNInvocations ==
    \A r \in Runs :
        (Returned(r) /\ NSteps(r) >= 1) => invoked[r] = valid_steps[r]

\* the run was ended before its last step: staging failed, one of the first
\* n-1 calls reported failure, or a chained artifact was missing
EndedEarly(r) ==
    \/ /\ result[r].error.kind = "pipeline_failed"
       /\ result[r].error.detail \in {"io_error", "no_pdf", "input_missing"}
    \/ FirstFailure(r) \in 1..(NSteps(r) - 1)

\* C2 (amended): the executor calls of a run are always a prefix of the
\* validated plan, in order; a returned run with a workspace has made all n
\* calls exactly when it was not ended before its last step.
C2_InvocationsPrefixOfPlan ==
    \A r \in Runs :
        /\ IsPrefix(invoked[r], valid_steps[r])
        /\ (Returned(r) /\ HasWorkspace(r)) =>
              (invoked[r] = valid_steps[r] <=> ~EndedEarly(r))

C2_Witness ==
    \E r \in Runs :
        /\ Returned(r)
        /\ NSteps(r) = 3
        /\ invoked[r] = valid_steps[r]
        /\ valid_steps[r][1] # valid_steps[r][2]
        /\ result[r].error = NoneDiag

\* C3: when the call for step k reported failure, no later step is ever
\* called, and the pair returned is (None, diagnostic) with the diagnostic
\* naming step k.
C3_FailureStopsThePlan ==
    \A r \in Runs :
        FirstFailure(r) > 0 =>
            /\ Len(invoked[r]) = FirstFailure(r)
            /\ pc[r] \in {"check", "cleanup", "done"}
            /\ pc[r] \in {"cleanup", "done"} =>
                  /\ result[r].artifact = NoneText
                  /\ result[r].error.kind = "step_failed"
                  /\ result[r].error.step = valid_steps[r][FirstFailure(r)]

C3_Witness ==
    \E r \in Runs :
        /\ Returned(r)
        /\ FirstFailure(r) = 2
        /\ NSteps(r) = 3
        /\ valid_steps[r][1] # valid_steps[r][2]
        /\ result[r].error.step = valid_steps[r][2]

\* C4 (as claimed): when the planner returned a list that is empty or holds no
\* registered identifier, the run returns (None, "no actionable services"),
\* calls no executor and leaves no workspace directory.
C4_EmptyPlanDiagnostic ==
    \A r \in Runs :
        (Returned(r) /\ ~plan[r].none /\ FilterKnown(plan[r].items) = <<>>) =>
            /\ result[r] = Pair(NoneText, Diag("no_services", None, None, NoneText))
            /\ invoked[r] = <<>>
            /\ ~HasWorkspace(r)

\* C5: when the call for a step after the first is made, and while its worker
\* starts, input.txt holds exactly what the previous step left in output.txt,
\* and output.txt does not exist.
C5_ChainingMovesOutputToInput ==
    \A r \in Runs :
        (pc[r] \in {"invoke", "running"} /\ i[r] > 0) =>
            /\ Exists(written[r])
            /\ fs[temp_dir[r]].input = written[r]
            /\ ~Exists(fs[temp_dir[r]].output)

C5_Witness ==
    \E r \in Runs :
        /\ pc[r] = "running"
        /\ Len(invoked[r]) = 2
        /\ fs[temp_dir[r]].input = [tag |-> "bad", len |-> 4]
        /\ ~Exists(fs[temp_dir[r]].output)

\* the pair is (artifact, None)
IsSuccess(pair) == pair.artifact # NoneText /\ pair.error = NoneDiag

\* C6 (as claimed): a run returns (artifact, None) exactly when all n calls
\* reported success and output.txt exists after the last step; the artifact is
\* then the whole content of output.txt as the last step left it; when the
\* calls succeeded and output.txt is absent the run returns (None, "final
\* output file is missing").
C6_ArtifactIffAllSucceeded ==
    \A r \in Runs :
        Returned(r) =>
            /\ IsSuccess(result[r]) <=> (AllSucceeded(r) /\ Exists(written[r]))
            /\ IsSuccess(result[r]) => result[r].artifact = written[r]
            /\ (AllSucceeded(r) /\ ~Exists(written[r])) =>
                  /\ result[r].artifact = NoneText
                  /\ result[r].error.kind = "final_missing"

\* C6 (amended): a run returns (artifact, None) exactly when all n calls
\* reported success, output.txt exists after the last step and its content
\* decodes as UTF-8 text; the artifact is then the whole content; when
\* output.txt is absent the run returns (None, "final output file is
\* missing"), and when it does not decode (None, "Pipeline failed: ...").
C6_ArtifactIffAllSucceededAndReadable ==
    \A r \in Runs :
        Returned(r) =>
            /\ IsSuccess(result[r]) <=>
                  (AllSucceeded(r) /\ Exists(written[r]) /\ Decodable(written[r]))
            /\ IsSuccess(result[r]) => result[r].artifact = written[r]
            /\ (AllSucceeded(r) /\ ~Exists(written[r])) =>
                  /\ result[r].artifact = NoneText
                  /\ result[r].error.kind = "final_missing"
            /\ (AllSucceeded(r) /\ Exists(written[r]) /\ ~Decodable(written[r])) =>
                  /\ result[r].artifact = NoneText
                  /\ result[r].error.kind = "pipeline_failed"
                  /\ result[r].error.detail = "decode_error"

C6_Witness ==
    \E r \in Runs :
        /\ Returned(r)
        /\ NSteps(r) = 2
        /\ AllSucceeded(r)
        /\ result[r] = Pair([tag |-> "ok", len |-> ReadLimit + 1], NoneDiag)

\* C7 (as claimed): the steps a run executes are the registered identifiers of
\* the raw plan in their order, and the run ends as a run whose raw plan is
\* that filtered sequence ends: with the same early diagnostic when it returns
\* before making a workspace, with the same validated steps when it goes on.
C7_SameAsFilteredPlan ==
    \A r \in Runs :
        (Returned(r) /\ ~plan[r].none) =>
            LET filtered == ListPlan(FilterKnown(plan[r].items)) IN
            /\ IsPrefix(invoked[r], filtered.items)
            /\ ~HasWorkspace(r) =>
                  result[r].error.kind = EarlyReturnKind(filtered)
            /\ HasWorkspace(r) =>
                  /\ EarlyReturnKind(filtered) = None
                  /\ valid_steps[r] = FilterKnown(filtered.items)

\* C8 (as claimed): no error leaves run_pipeline as a raised exception.
C8_NoErrorEscapes ==
    \A r \in Runs : pc[r] # "raised"

\* C9: the pair run_pipeline returns has exactly one field that is not None.
C9_ExactlyOneFieldPopulated ==
    \A r \in Runs :
        pc[r] \in {"cleanup", "done"} =>
            (result[r].artifact # NoneText) # (result[r].error # NoneDiag)

C9_Witness ==
    \E r \in Runs :
        /\ Returned(r)
        /\ result[r] = Pair([tag |-> "ok", len |-> 0], NoneDiag)

\* step k < n reported success and left no output.txt, and the run returned
SilentStep(r, k) ==
    /\ Returned(r)
    /\ k \in 1..(NSteps(r) - 1)
    /\ Len(reports[r]) = k
    /\ \A j \in 1..k : reports[r][j]
    /\ ~Exists(written[r])

\* C10 (as claimed): when a step k < n exits successfully and leaves no
\* output.txt, the run fails with a diagnostic naming step k, and step k+1 is
\* never called.
C10_MissingArtifactNamesStepK ==
    \A r \in Runs : \A k \in 1..MaxPlanLen :
        SilentStep(r, k) =>
            /\ result[r].artifact = NoneText
            /\ result[r].error.detail = "input_missing"
            /\ result[r].error.step = valid_steps[r][k]
            /\ Len(invoked[r]) = k

\* C10 (amended): when a step k < n exits successfully and leaves no
\* output.txt, the run fails with "Pipeline failed: Input file ... missing for
\* step X. Expected output from previous step." where X is step k+1, and step
\* k+1 is never called.
C10_MissingArtifactNamesNextStep ==
    \A r \in Runs : \A k \in 1..MaxPlanLen :
        SilentStep(r, k) =>
            /\ result[r].artifact = NoneText
            /\ result[r].error.kind = "pipeline_failed"
            /\ result[r].error.detail = "input_missing"
            /\ result[r].error.step = valid_steps[r][k + 1]
            /\ Len(invoked[r]) = k

C10_Witness ==
    \E r \in Runs :
        /\ SilentStep(r, 1)
        /\ NSteps(r) = 3
        /\ valid_steps[r][1] # valid_steps[r][2]
        /\ result[r].error.step = valid_steps[r][2]

\* run_pipeline has ended: it returned a pair or raised
Ended(r) == pc[r] \in {"done", "raised"}

\* C11 (as claimed): a run never stalls: as long as it has not ended it can
\* take a step, also when its worker never finishes (a timeout ends the
\* worker, the call is reported as failed and cleanup follows).
C11_HungWorkerIsTimedOut ==
    \A r \in Runs :
        pc[r] # "idle" => (Ended(r) \/ ENABLED RunStep(r))

\* the call of run r is for a registered task that needs the key
NeedsKey(r) ==
    /\ invoked[r] # <<>>
    /\ invoked[r][1] \in DOMAIN SERVICE_INFO
    /\ SERVICE_INFO[invoked[r][1]].needs_api_key

\* C12: when run_docker_task is called for a task that needs the key and the
\* key is not in the environment, docker run is never executed, no container
\* exists, and the call returns False.
C12_NoLaunchWithoutKey ==
    \A r \in Runs :
        (NeedsKey(r) /\ ~envKey) =>
            /\ launched[r] = 0
            /\ containers = {}
            /\ pc[r] = "check"
            /\ success[r] = FALSE
            /\ reports[r] = <<FALSE>>

C12_Witness ==
    \E r \in Runs :
        /\ ~envKey
        /\ invoked[r] = <<"translator-service">>
        /\ pc[r] = "check"
        /\ launched[r] = 0
        /\ reports[r] = <<FALSE>>

\* C13: the finally block never changes the outcome and never raises: the
\* step that leaves cleanup ends the run as returned, with the pair that was
\* pending before it, whether the removal of the directory worked or failed.
C13_CleanupKeepsTheOutcome ==
    [][\A r \in Runs :
          (pc[r] = "cleanup" /\ pc'[r] # "cleanup") =>
              /\ pc'[r] = "done"
              /\ result'[r] = result[r]
              /\ rmtree'[r] \in {"removed", "failed", "not_called"}]_vars

\* a run whose directory removal failed returned its artifact all the same
C13_Witness ==
    \E r \in Runs :
        /\ Returned(r)
        /\ rmtree[r] = "failed"
        /\ fs[temp_dir[r]].exists
        /\ IsSuccess(result[r])

\* the first ReadLimit characters of a text (all of it when it is shorter)
FirstChars(c) ==
    [tag |-> "ok", len |-> IF c.len <= ReadLimit THEN c.len ELSE ReadLimit]

\* the run returned after a failed call that left output.txt in place
FailedWithOutput(r) ==
    /\ Returned(r)
    /\ FirstFailure(r) > 0
    /\ Exists(written[r])

\* C14 (as claimed): when a step's call fails and output.txt exists, the
\* diagnostic names the failing step and carries the first 500 characters of
\* output.txt (all of it when shorter); the captured text is never longer
\* than 500 characters.
C14_DiagnosticCarriesOutput ==
    \A r \in Runs :
        /\ result[r].error.captured.len <= ReadLimit
        /\ FailedWithOutput(r) =>
              /\ result[r].artifact = NoneText
              /\ result[r].error.kind = "step_failed"
              /\ result[r].error.step = valid_steps[r][FirstFailure(r)]
              /\ result[r].error.detail = "last_output"
              /\ result[r].error.captured = FirstChars(written[r])

\* C14 (amended): the same when output.txt can be read as UTF-8 text; when it
\* cannot, the diagnostic names the failing step and says that the output
\* file could not be read, and carries no captured text.
C14_DiagnosticCarriesReadableOutput ==
    \A r \in Runs :
        /\ result[r].error.captured.len <= ReadLimit
        /\ FailedWithOutput(r) =>
              /\ result[r].artifact = NoneText
              /\ result[r].error.kind = "step_failed"
              /\ result[r].error.step = valid_steps[r][FirstFailure(r)]
              /\ IF Decodable(written[r])
                 THEN /\ result[r].error.detail = "last_output"
                      /\ result[r].error.captured = FirstChars(written[r])
                 ELSE /\ result[r].error.detail = "could_not_read"
                      /\ result[r].error.captured = NoneText

\* a failed step left more than 500 characters and the diagnostic has 500
C14_Witness ==
    \E r \in Runs :
        /\ FailedWithOutput(r)
        /\ written[r].len = ReadLimit + 1
        /\ result[r].error.captured.len = ReadLimit
        /\ result[r].error.step = valid_steps[r][FirstFailure(r)]

\* the planner of run r failed: it raised, or answered something that is not
\* a JSON list of strings
PlannerFailed(r) ==
    llm_response[r].kind \in {"raises", "not_json", "not_list_of_strings"}

\* C16: a planner failure is fatal at once: the run has returned (None, "no
\* valid plan"), it made no workspace directory and called run_docker_task
\* not once.
C16_PlannerFailureIsFatal ==
    \A r \in Runs :
        /\ plan[r] \in PlannerReturns
        /\ PlannerFailed(r) =>
              /\ Returned(r)
              /\ result[r] = Pair(NoneText, Diag("no_plan", None, None, NoneText))
              /\ temp_dir[r] = None
              /\ \A d \in DirNames : ~fs[d].exists
              /\ rmtree[r] = "not_called"
              /\ invoked[r] = <<>>
              /\ launched[r] = 0

C16_Witness ==
    \E r \in Runs :
        /\ llm_response[r].kind = "not_json"
        /\ Returned(r)
        /\ result[r].error.kind = "no_plan"
        /\ invoked[r] = <<>>

\* ------------------------------------------- extract_language called alone
\* longest request, in tokens
MaxRequestLen == 5

Requests == SeqsUpTo(Tokens, MaxRequestLen)

\* extract_language is about to be called with any request
InitLang ==
    /\ envKey = TRUE
    /\ GOOGLE_API_KEY = TRUE
    /\ \E request \in Requests :
          user_request = [r \in Runs |-> IF r = "run1" THEN request ELSE <<>>]
    /\ pc = [r \in Runs |-> IF r = "run1" THEN "extract" ELSE "idle"]
    /\ fs = [d \in DirNames |-> NoDir]
    /\ initial_input_content = [r \in Runs |-> NoneText]
    /\ plan = [r \in Runs |-> NonePlan]
    /\ valid_steps = [r \in Runs |-> <<>>]
    /\ ignored = [r \in Runs |-> {}]
    /\ temp_dir = [r \in Runs |-> None]
    /\ i = [r \in Runs |-> 0]
    /\ success = [r \in Runs |-> FALSE]
    /\ result = [r \in Runs |-> NoResult]
    /\ invoked = [r \in Runs |-> <<>>]
    /\ reports = [r \in Runs |-> <<>>]
    /\ written = [r \in Runs |-> NoFile]
    /\ rmtree = [r \in Runs |-> "not_called"]
    /\ llm_response = [r \in Runs |-> NoResponse]
    /\ lang_code = [r \in Runs |-> None]
    /\ step_env_vars = [r \in Runs |-> None]
    /\ container_name = [r \in Runs |-> NoName]
    /\ containers = {}
    /\ launched = [r \in Runs |-> 0]
    /\ cancel = [r \in Runs |-> 0]
    /\ worker = NoWorker

\* lines 94-101: the call returns
ExtractLanguage(r) ==
    /\ pc[r] = "extract"
    /\ lang_code' = [lang_code EXCEPT ![r] = extract_language(user_request[r])]
    /\ pc' = [pc EXCEPT ![r] = "extracted"]
    /\ UNCHANGED <<user_request, llm_response, step_env_vars, dockerVars, cancel,
                   worker>>
    /\ UNCHANGED <<GOOGLE_API_KEY, envKey, fs, initial_input_content, plan,
                   valid_steps, ignored, temp_dir, i, success, result, invoked,
                   reports, written, rmtree>>

NextLang ==
    \E r \in Runs : ExtractLanguage(r)

SpecLang == InitLang /\ [][NextLang]_vars

\* "translate to <word>" stands at token k of the request, in any case
OccursAt(request, k) ==
    /\ k \in 1..(Len(request) - 2)
    /\ request[k].word = "translate" /\ ~request[k].tail
    /\ request[k + 1].word = "to" /\ ~request[k + 1].tail
    /\ request[k + 2].word # ""

\* the code of a language name, "en" for a name the table does not have
CodeOf(name) ==
    CASE name = "german" -> "de"
      [] name = "french" -> "fr"
      [] name = "spanish" -> "es"
      [] name = "japanese" -> "ja"
      [] OTHER -> "en"

ConcPlans == {<<"summarizer-service">>, <<"summarizer-service", "translator-service">>}

\* two calls of run_pipeline in two threads, both past the validation of
\* their plans (line 203) and about to make their directories
InitConc ==
    /\ envKey = TRUE
    /\ GOOGLE_API_KEY = TRUE
    /\ \E steps \in [Runs -> ConcPlans] :
          /\ valid_steps = steps
          /\ plan = [r \in Runs |-> ListPlan(steps[r])]
          /\ llm_response = [r \in Runs |-> [kind |-> "list", items |-> steps[r]]]
    /\ \E request \in SampleRequests : user_request = [r \in Runs |-> request]
    /\ pc = [r \in Runs |-> "mkdtemp"]
    /\ fs = [d \in DirNames |-> NoDir]
    /\ initial_input_content = [r \in Runs |-> [tag |-> "ok", len |-> 4]]
    /\ ignored = [r \in Runs |-> {}]
    /\ temp_dir = [r \in Runs |-> None]
    /\ i = [r \in Runs |-> 0]
    /\ success = [r \in Runs |-> FALSE]
    /\ result = [r \in Runs |-> NoResult]
    /\ invoked = [r \in Runs |-> <<>>]
    /\ reports = [r \in Runs |-> <<>>]
    /\ written = [r \in Runs |-> NoFile]
    /\ rmtree = [r \in Runs |-> "not_called"]
    /\ lang_code = [r \in Runs |-> None]
    /\ step_env_vars = [r \in Runs |-> None]
    /\ container_name = [r \in Runs |-> NoName]
    /\ containers = {}
    /\ launched = [r \in Runs |-> 0]
    /\ cancel = [r \in Runs |-> 0]
    /\ worker = NoWorker

NextConc ==
    \E r \in Runs :
        \/ MkDtemp(r)
        \/ Stage(r)
        \/ Chain(r)
        \/ InvokeTask(r)
        \/ Launch(r)
        \/ TaskExit(r)
        \/ CheckSuccess(r)
        \/ Collect(r)
        \/ Cleanup(r)

SpecConc == InitConc /\ [][NextConc]_vars

\* run r holds a workspace directory: made and not yet through cleanup
HoldsWorkspace(r) == temp_dir[r] # None /\ pc[r] \notin {"done", "raised"}

\* run r is inside a call of run_docker_task that has chosen its name
HoldsName(r) == container_name[r] # NoName

\* C15 (as claimed): two runs at the same time never hold the same workspace
\* directory, and two calls of run_docker_task never hold the same container
\* name.
C15_RunsShareNothing ==
    \A r1, r2 \in Runs :
        r1 # r2 =>
            /\ (HoldsWorkspace(r1) /\ HoldsWorkspace(r2)) => temp_dir[r1] # temp_dir[r2]
            /\ (HoldsName(r1) /\ HoldsName(r2)) => container_name[r1] # container_name[r2]

\* the part of C15 about directories: two runs never hold the same directory,
\* and a step changes no directory but that of the run taking it
C15_WorkspacesAreApart ==
    /\ [](\A r1, r2 \in Runs :
            (r1 # r2 /\ HoldsWorkspace(r1) /\ HoldsWorkspace(r2)) =>
                temp_dir[r1] # temp_dir[r2])
    /\ [][\A d \in DirNames :
            fs'[d] # fs[d] => \E r \in Runs : pc'[r] # pc[r] /\ temp_dir'[r] = d]_vars

\* ------------------------------------------ a caller who wants to stop a run
\* one call of run_pipeline, past the validation of its plan
InitCancel ==
    /\ envKey = TRUE
    /\ GOOGLE_API_KEY = TRUE
    /\ \E steps \in ConcPlans, request \in SampleRequests :
          /\ valid_steps = [r \in Runs |-> IF r = "run1" THEN steps ELSE <<>>]
          /\ plan = [r \in Runs |-> IF r = "run1" THEN ListPlan(steps) ELSE NonePlan]
          /\ llm_response = [r \in Runs |->
                                IF r = "run1" THEN [kind |-> "list", items |-> steps]
                                ELSE NoResponse]
          /\ user_request = [r \in Runs |-> IF r = "run1" THEN request ELSE <<>>]
    /\ \E text \in InitialInputs :
          initial_input_content = [r \in Runs |-> IF r = "run1" THEN text ELSE NoneText]
    /\ pc = [r \in Runs |-> IF r = "run1" THEN "mkdtemp" ELSE "idle"]
    /\ fs = [d \in DirNames |-> NoDir]
    /\ ignored = [r \in Runs |-> {}]
    /\ temp_dir = [r \in Runs |-> None]
    /\ i = [r \in Runs |-> 0]
    /\ success = [r \in Runs |-> FALSE]
    /\ result = [r \in Runs |-> NoResult]
    /\ invoked = [r \in Runs |-> <<>>]
    /\ reports = [r \in Runs |-> <<>>]
    /\ written = [r \in Runs |-> NoFile]
    /\ rmtree = [r \in Runs |-> "not_called"]
    /\ lang_code = [r \in Runs |-> None]
    /\ step_env_vars = [r \in Runs |-> None]
    /\ container_name = [r \in Runs |-> NoName]
    /\ containers = {}
    /\ launched = [r \in Runs |-> 0]
    /\ cancel = [r \in Runs |-> 0]
    /\ worker = NoWorker

\* the caller decides, while a step's worker runs, that the run should stop;
\* run_pipeline takes no argument and reads no flag through which the caller
\* could say so (line 184), so the decision changes nothing in the run
RequestCancel(r) ==
    /\ pc[r] = "running"
    /\ cancel[r] = 0
    /\ cancel' = [cancel EXCEPT ![r] = i[r] + 1]
    /\ UNCHANGED <<reqVars, dockerVars, worker>>
    /\ UNCHANGED <<GOOGLE_API_KEY, envKey, fs, pc, initial_input_content, plan,
                   valid_steps, ignored, temp_dir, i, success, result, invoked,
                   reports, written, rmtree>>

NextCancel ==
    \E r \in Runs :
        \/ MkDtemp(r)
        \/ Stage(r)
        \/ Chain(r)
        \/ InvokeTask(r)
        \/ Launch(r)
        \/ TaskExit(r)
        \/ CheckSuccess(r)
        \/ Collect(r)
        \/ Cleanup(r)
        \/ RequestCancel(r)

SpecCancel == InitCancel /\ [][NextCancel]_vars

\* C18 (as claimed): when the caller asked for the run to stop while step k
\* was running, no step after k is started, and the run returns a failure.
C18_CancelStopsTheRun ==
    \A r \in Runs :
        cancel[r] > 0 =>
            /\ Len(invoked[r]) <= cancel[r]
            /\ Returned(r) => ~IsSuccess(result[r])

\* ------------------------------------------------------------ task workers
\* The five worker scripts run inside their containers on /data. worker is a
\* record: pc, kind (which script), google_api_key (GOOGLE_API_KEY is in the
\* container's environment), input (input.txt), pdf (input.pdf exists),
\* text (what the script has read or produced), output (what output.txt
\* holds: "before" is whatever it held when the worker started), failure (the
\* exception caught, None when none), attempted (the handler opened
\* output.txt to write the diagnostic), status (the exit status, -1 while
\* running).
NotExited == -1

WorkerKinds == ServiceNames \cup {"pdf-reader-service"}

\* every variable of the orchestrator, which the workers never touch
orchestratorVars ==
    <<GOOGLE_API_KEY, envKey, fs, pc, initial_input_content, plan, valid_steps,
      ignored, temp_dir, i, success, result, invoked, reports, written, rmtree,
      reqVars, dockerVars, cancel>>

\* a worker was started by docker run; the orchestrator is not modelled
InitWorker ==
    /\ \E kind \in WorkerKinds, key \in BOOLEAN, input \in FileStates, pdf \in BOOLEAN :
          worker = [pc |-> "try", kind |-> kind, google_api_key |-> key,
                    input |-> input, pdf |-> pdf, text |-> NoneText,
                    output |-> "before", failure |-> None, attempted |-> FALSE,
                    status |-> NotExited]
    /\ envKey = TRUE
    /\ GOOGLE_API_KEY = TRUE
    /\ user_request = [r \in Runs |-> <<>>]
    /\ pc = [r \in Runs |-> "idle"]
    /\ fs = [d \in DirNames |-> NoDir]
    /\ initial_input_content = [r \in Runs |-> NoneText]
    /\ plan = [r \in Runs |-> NonePlan]
    /\ valid_steps = [r \in Runs |-> <<>>]
    /\ ignored = [r \in Runs |-> {}]
    /\ temp_dir = [r \in Runs |-> None]
    /\ i = [r \in Runs |-> 0]
    /\ success = [r \in Runs |-> FALSE]
    /\ result = [r \in Runs |-> NoResult]
    /\ invoked = [r \in Runs |-> <<>>]
    /\ reports = [r \in Runs |-> <<>>]
    /\ written = [r \in Runs |-> NoFile]
    /\ rmtree = [r \in Runs |-> "not_called"]
    /\ llm_response = [r \in Runs |-> NoResponse]
    /\ lang_code = [r \in Runs |-> None]
    /\ step_env_vars = [r \in Runs |-> None]
    /\ container_name = [r \in Runs |-> NoName]
    /\ containers = {}
    /\ launched = [r \in Runs |-> 0]
    /\ cancel = [r \in Runs |-> 0]

\* an exception is raised inside the try: control goes to the handler
Raise(failure) ==
    worker' = [worker EXCEPT !.pc = "except", !.failure = failure]

\* summarize.py lines 13-17 (translate.py 19-22, anonymize_text.py 12-15,
\* simplify_terms.py 12-16): the key must be in the environment;
\* read_pdf.py lines 13-14: input.pdf must exist
WorkerCheck ==
    /\ worker.pc = "try"
    /\ IF worker.kind = "pdf-reader-service"
       THEN IF ~worker.pdf
            THEN Raise("input_pdf_not_found")
            ELSE worker' = [worker EXCEPT !.pc = "read"]
       ELSE IF ~worker.google_api_key
            THEN Raise("key_not_set")
            ELSE worker' = [worker EXCEPT !.pc = "read"]
    /\ UNCHANGED orchestratorVars

\* summarize.py lines 20-22: open and read input.txt as UTF-8;
\* read_pdf.py lines 17-28: PdfReader parses input.pdf and the pages give
\* their text, or raise on a file that is no PDF
WorkerRead ==
    /\ worker.pc = "read"
    /\ IF worker.kind = "pdf-reader-service"
       THEN \/ \E len \in {0, 4} :
                 worker' = [worker EXCEPT !.pc = "write",
                                          !.text = [tag |-> "ok", len |-> len]]
            \/ Raise("pdf_unreadable")
       ELSE IF Exists(worker.input) /\ Decodable(worker.input)
            THEN worker' = [worker EXCEPT !.pc = "call", !.text = ReadAll(worker.input)]
            ELSE Raise("input_unreadable")
    /\ UNCHANGED orchestratorVars

\* summarize.py lines 24-42: a blank text is answered with "" without a call;
\* otherwise generate_content returns a text or raises
WorkerCall ==
    /\ worker.pc = "call"
    /\ IF worker.text.len = 0
       THEN worker' = [worker EXCEPT !.pc = "write"]
       ELSE \/ \E len \in {0, 4} :
                 worker' = [worker EXCEPT !.pc = "write",
                                          !.text = [tag |-> "ok", len |-> len]]
            \/ Raise("model_call_failed")
    /\ UNCHANGED orchestratorVars

\* summarize.py lines 47-50 and the end of the script: the result is written
\* and the script ends with status 0; or open raises (output.txt as before),
\* or write raises after open has emptied the file
WorkerWrite ==
    /\ worker.pc = "write"
    /\ \/ worker' = [worker EXCEPT !.pc = "exited", !.output = "result", !.status = 0]
       \/ Raise("write_failed")
       \/ worker' = [worker EXCEPT !.pc = "except", !.failure = "write_failed",
                                   !.output = "empty"]
    /\ UNCHANGED orchestratorVars

\* a handler that prints the error and exits without touching output.txt
WorkerHandlerSilent ==
    /\ worker.pc = "except"
    /\ worker' = [worker EXCEPT !.pc = "exited", !.status = 1]
    /\ UNCHANGED orchestratorVars

\* summarize.py lines 52-59: the handler opens output.txt to write "Error
\* during ...: <e>"; a failure of that write is only printed; sys.exit(1)
WorkerHandler ==
    /\ worker.pc = "except"
    /\ \/ worker' = [worker EXCEPT !.pc = "exited", !.attempted = TRUE,
                                   !.output = "diagnostic", !.status = 1]
       \/ \E left \in {worker.output, "empty"} :
             worker' = [worker EXCEPT !.pc = "exited", !.attempted = TRUE,
                                      !.output = left, !.status = 1]
    /\ UNCHANGED orchestratorVars

NextWorker ==
    \/ WorkerCheck
    \/ WorkerRead
    \/ WorkerCall
    \/ WorkerWrite
    \/ WorkerHandler

SpecWorker == InitWorker /\ [][NextWorker]_vars

\* C19: a worker that has exited ended with status 0 or 1; it ended with 0
\* only with its result in output.txt and no failure; after any failure in
\* its try block it opened output.txt to write a diagnostic and ended with 1.
C19_WorkersKeepTheFileContract ==
    /\ worker.status \in {NotExited, 0, 1}
    /\ worker.pc = "exited" <=> worker.status # NotExited
    /\ worker.status = 0 =>
          /\ worker.output = "result"
          /\ worker.failure = None
          /\ ~worker.attempted
    /\ (worker.pc = "exited" /\ worker.failure # None) =>
          /\ worker.attempted
          /\ worker.status = 1
          /\ worker.output \in {"diagnostic", "before", "empty"}
    /\ worker.output = "diagnostic" => worker.failure # None

\* the model call of a worker failed: the diagnostic is in output.txt and the
\* status is 1
C19_Witness ==
    /\ worker.pc = "exited"
    /\ worker.kind = "translator-service"
    /\ worker.failure = "model_call_failed"
    /\ worker.output = "diagnostic"
    /\ worker.status = 1

\* run r is inside a call of run_docker_task
InCall(r) == pc[r] \in {"launch", "running", "hung"}

\* C20: the calls of run_docker_task made so far are a prefix of the
\* validated plan; at most one call is open, and a call starts only when every
\* earlier call has returned and reported success; the call that starts is for
\* the next step of the plan.
C20_StepsRunOneAfterAnother ==
    /\ [](\A r \in Runs :
            /\ IsPrefix(invoked[r], valid_steps[r])
            /\ Len(invoked[r]) = Len(reports[r]) + (IF InCall(r) THEN 1 ELSE 0))
    /\ [][\A r \in Runs :
            invoked'[r] # invoked[r] =>
                /\ ~InCall(r)
                /\ Len(reports[r]) = Len(invoked[r])
                /\ \A k \in DOMAIN reports[r] : reports[r][k]
                /\ Len(invoked[r]) < NSteps(r)
                /\ invoked'[r] = Append(invoked[r], valid_steps[r][Len(invoked[r]) + 1])]_vars

\* the second step of a plan is running after the first one returned
C20_Witness ==
    \E r \in Runs :
        /\ pc[r] = "running"
        /\ Len(invoked[r]) = 2
        /\ reports[r] = <<TRUE>>
        /\ invoked[r][2] = valid_steps[r][2]
        /\ invoked[r][1] # invoked[r][2]

\* the text input.txt must hold for the first step: the caller's text, ""
\* when the caller gave none or gave ""
TextForFirstStep(r) ==
    IF initial_input_content[r] = NoneText THEN [tag |-> "ok", len |-> 0]
    ELSE initial_input_content[r]

\* C21: when the first call of run_docker_task starts, input.txt exists and
\* holds the caller's text, the empty text when the caller gave none; a run
\* without text can always get past staging, and a run that fails at staging
\* fails on the write, whatever the text was.
C21_FirstStepReadsTheCallersText ==
    /\ [](\A r \in Runs :
            /\ (pc[r] = "staging" /\ initial_input_content[r] = NoneText) =>
                  ENABLED (Stage(r) /\ pc'[r] = "chain")
            /\ (pc[r] \in {"launch", "running"} /\ Len(invoked[r]) = 1) =>
                  fs[temp_dir[r]].input = TextForFirstStep(r)
            /\ (invoked[r] = <<>> /\ pc[r] \in {"cleanup", "done"} /\ HasWorkspace(r)) =>
                  result[r].error.detail = "io_error")
    /\ [][\A r \in Runs :
            (invoked[r] = <<>> /\ invoked'[r] # <<>>) =>
                /\ Exists(fs[temp_dir[r]].input)
                /\ fs[temp_dir[r]].input = TextForFirstStep(r)]_vars

\* a run that was given no text started its first step on an empty input.txt
C21_Witness ==
    \E r \in Runs :
        /\ initial_input_content[r] = NoneText
        /\ pc[r] = "running"
        /\ Len(invoked[r]) = 1
        /\ fs[temp_dir[r]].input = [tag |-> "ok", len |-> 0]

\* the language code the request asks for, told from its first "translate to
\* <name>" ("en" when it has none)
RequestedLang(request) ==
    LET places == {k \in 1..Len(request) : OccursAt(request, k)} IN
    IF places = {} THEN "en"
    ELSE CodeOf(request[(CHOOSE k \in places : \A j \in places : k <= j) + 2].word)

\* C22: a call of run_docker_task is given TARGET_LANG exactly when its step
\* is translator-service, and then the code the request asks for; every other
\* step is called with no parameter of its own; two translator steps of one
\* run are given the same code.
C22_TargetLangOnlyForTranslator ==
    /\ [](\A r \in Runs :
            lang_code[r] # None => \E k \in DOMAIN invoked[r] :
                                       invoked[r][k] = "translator-service")
    /\ [][\A r \in Runs :
            invoked'[r] # invoked[r] =>
                LET step == invoked'[r][Len(invoked'[r])] IN
                IF step = "translator-service"
                THEN /\ step_env_vars'[r] = RequestedLang(user_request[r])
                     /\ lang_code[r] # None => step_env_vars'[r] = lang_code[r]
                ELSE step_env_vars'[r] = None]_vars

\* a run called translator-service twice, both times with "de"
C22_Witness ==
    \E r \in Runs :
        /\ Len(invoked[r]) = 3
        /\ invoked[r][1] = "translator-service"
        /\ invoked[r][2] = "summarizer-service"
        /\ invoked[r][3] = "translator-service"
        /\ pc[r] = "running"
        /\ step_env_vars[r] = "de"
        /\ lang_code[r] = "de"

\* output.txt of run r's workspace
OutputSlot(r) == fs[temp_dir[r]].output

\* C23: when a call of run_docker_task starts, and until its worker ends (the
\* worker's writing and its exit are one step here), output.txt does not
\* exist; output.txt comes to exist only by the worker of the open call; so
\* what is read from output.txt after a step is what that step's worker left.
C23_OutputIsNeverStale ==
    /\ [](\A r \in Runs :
            /\ InCall(r) => ~Exists(OutputSlot(r))
            /\ pc[r] \in {"check", "collect"} => OutputSlot(r) = written[r])
    /\ [][\A r \in Runs :
            /\ invoked'[r] # invoked[r] => ~Exists(OutputSlot(r))
            /\ (HasWorkspace(r) /\ ~Exists(OutputSlot(r)) /\ Exists(OutputSlot(r)')) =>
                  /\ pc[r] = "running"
                  /\ reports'[r] # reports[r]
                  /\ Len(reports'[r]) = Len(invoked[r])]_vars

\* the second step failed and left its own text in output.txt
C23_Witness ==
    \E r \in Runs :
        /\ pc[r] = "check"
        /\ reports[r] = <<TRUE, FALSE>>
        /\ Exists(OutputSlot(r))
        /\ OutputSlot(r) = written[r]
        /\ Exists(fs[temp_dir[r]].input)

====
